---- MODULE Spec2Model ----
(***************************************************************************)
(* Episodic training notebook (notebooks/episodic_training.ipynb).         *)
(*                                                                         *)
(* The notebook is a sequential script: configuration cells, the helper    *)
(* training_epoch, the training loop with best-model tracking, the         *)
(* restoration of the best state and the final test evaluation.  The model *)
(* follows the script statement by statement with a program counter.       *)
(*                                                                         *)
(* Numbers: an accuracy a in 0..AccScale stands for a/AccScale in [0,1];   *)
(* a learning rate is kept in units of 1e-4 (1e-2 is 100); a loss value is *)
(* a small natural number; a mean is an exact reduced fraction <<n, d>>.   *)
(*                                                                         *)
(* Variables marked "history" record what the script did (they are never   *)
(* read by the actions' guards or by the program state they update).       *)
(***************************************************************************)
EXTENDS Integers, Sequences, FiniteSets, TLC

VARIABLES
    pc,                        \* position in the script
    n_epochs,                  \* configuration: number of epochs of the loop
    n_tasks_per_epoch,         \* configuration: episodes the train loader yields
    epoch,                     \* loop variable of the training loop (-1: not bound yet)
    episode_index,             \* loop variable of training_epoch (-1: not bound yet)
    tensors,                   \* tensor storage: tensor id -> value held
    mode,                      \* few_shot_classifier.training: "train" or "eval"
    grad,                      \* episodes whose loss is accumulated in .grad
    support,                   \* episode whose support set the model holds
    scores,                    \* training_epoch's classification_scores: [support, query]
    loss,                      \* training_epoch's loss: [support, query, labels, value]
    all_loss,                  \* training_epoch's all_loss
    average_loss,              \* result of training_epoch
    validation_accuracy,       \* result of evaluate on val_loader
    best_state,                \* state dict: the tensor id it refers to
    best_validation_accuracy,
    lr,                        \* train_optimizer's learning rate (units of 1e-4)
    last_epoch,                \* train_scheduler.last_epoch
    tb_writer,                 \* sequence of <<tag, value, step>> scalars written
    accuracy,                  \* result of evaluate on test_loader
    lr_used,                   \* history: learning rate of the last optimizer step
    epoch_losses,              \* history: loss values computed by the training_epoch call
    assign_epochs,             \* history: epochs in which best_state was assigned
    end_params,                \* history: parameter value at the end of each epoch
    test_params,               \* history: parameter value during the test evaluation
    n_train,                   \* history: completed training_epoch calls
    n_val,                     \* history: completed validation passes
    n_test,                    \* history: completed test evaluations
    n_restore,                 \* history: completed load_state_dict calls
    val_history,               \* history: accuracies the validation passes returned
    mode_at_entry              \* history: mode in which the running training_epoch call was entered

vars == <<pc, n_epochs, n_tasks_per_epoch, epoch, episode_index, tensors, mode,
          grad, support, scores, loss, all_loss, average_loss,
          validation_accuracy, best_state, best_validation_accuracy, lr,
          last_epoch, tb_writer, accuracy, lr_used, epoch_losses,
          assign_epochs, end_params, test_params, n_train, n_val, n_test,
          n_restore, val_history, mode_at_entry>>

----------------------------------------------------------------------------
(* Bounds of the exploration *)

MaxEpochs == 2
MaxEpisodes == 2
MaxLoss == 1
AccScale == 2

(* Configuration cell values *)

configured_n_epochs == 200
scheduler_milestones == {120, 160}
gamma_divisor == 10
learning_rate == 100

Losses == 0..MaxLoss
Accuracies == 0..AccScale

NoEpisode == <<-1, -1>>
NoValue == -1
NoScores == [support |-> NoEpisode, query |-> NoEpisode]
NoLoss == [support |-> NoEpisode, query |-> NoEpisode,
           labels |-> NoEpisode, value |-> NoValue]

----------------------------------------------------------------------------
(* Pure helpers *)

RECURSIVE Sum(_)
Sum(s) == IF s = <<>> THEN 0 ELSE Head(s) + Sum(Tail(s))

RECURSIVE Gcd(_, _)
Gcd(a, b) == IF b = 0 THEN a ELSE Gcd(b, a % b)

\* statistics.mean on a non-empty list, as an exact reduced fraction
mean(s) ==
    LET n == Sum(s)
        d == Len(s)
        g == Gcd(n, d)
    IN  <<n \div g, d \div g>>

\* The tensor that holds the classifier's parameters and buffers
PARAMS == "few_shot_classifier.parameters"

\* nn.Module.state_dict(): a shallow dictionary whose entries refer to the
\* module's own parameter tensors (no storage is copied)
state_dict == PARAMS

\* nn.Module.load_state_dict(sd): copies the values of sd's tensors into the
\* module's parameter tensors
load_state_dict(sd) == [tensors EXCEPT ![PARAMS] = tensors[sd]]

\* The episode the train loader is yielding
Episode == <<epoch, episode_index>>

\* An episode of another loader (validation or test)
OtherEpisode == <<-2, -2>>

----------------------------------------------------------------------------
(* The state after the configuration and construction cells *)

InitWith(epochChoices, taskChoices) ==
    /\ pc = "init_best"
    /\ n_epochs \in epochChoices
    /\ n_tasks_per_epoch \in taskChoices
    /\ epoch = -1
    /\ episode_index = -1
    /\ tensors = [t \in {PARAMS} |-> 0]
    /\ mode = "train"
    /\ grad = {}
    /\ support = NoEpisode
    /\ scores = NoScores
    /\ loss = NoLoss
    /\ all_loss = <<>>
    /\ average_loss = <<NoValue, 1>>
    /\ validation_accuracy = NoValue
    /\ best_state = "unbound"
    /\ best_validation_accuracy = NoValue
    /\ lr = learning_rate
    /\ last_epoch = 0
    /\ tb_writer = <<>>
    /\ accuracy = NoValue
    /\ lr_used = NoValue
    /\ epoch_losses = <<>>
    /\ assign_epochs = {}
    /\ end_params = <<>>
    /\ test_params = NoValue
    /\ n_train = 0
    /\ n_val = 0
    /\ n_test = 0
    /\ n_restore = 0
    /\ val_history = <<>>
    /\ mode_at_entry = "none"

Config == <<n_epochs, n_tasks_per_epoch>>
Model == <<tensors, mode, grad, support, scores, loss>>
Optim == <<lr, last_epoch, lr_used>>
Best == <<best_state, best_validation_accuracy, assign_epochs, end_params>>
Counters == <<n_train, n_val, n_test, n_restore>>
History == <<val_history, mode_at_entry>>
Results == <<average_loss, validation_accuracy, accuracy, test_params>>
TrainLocals == <<episode_index, all_loss, epoch_losses>>

----------------------------------------------------------------------------
(* The training loop cell, before the loop *)

\* best_state = few_shot_classifier.state_dict(); best_validation_accuracy = 0.0
InitBest ==
    /\ pc = "init_best"
    /\ best_state' = state_dict
    /\ best_validation_accuracy' = 0
    /\ pc' = "epoch_head"
    /\ UNCHANGED <<Config, epoch, Model, Optim, assign_epochs, end_params,
                   Counters, Results, TrainLocals, tb_writer>>
    /\ UNCHANGED History

\* Variant: range(n_epochs + 1)
LoopHead_OffByOne ==
    /\ pc = "epoch_head"
    /\ IF epoch + 1 < n_epochs + 1
          THEN /\ epoch' = epoch + 1
               /\ pc' = "train_enter"
          ELSE /\ epoch' = epoch
               /\ pc' = "restore"
    /\ UNCHANGED <<Config, Model, Optim, Best, Counters, Results, TrainLocals,
                   tb_writer>>
    /\ UNCHANGED History

\* for epoch in range(n_epochs)
LoopHead ==
    /\ pc = "epoch_head"
    /\ IF epoch + 1 < n_epochs
          THEN /\ epoch' = epoch + 1
               /\ pc' = "train_enter"
          ELSE /\ epoch' = epoch
               /\ pc' = "restore"
    /\ UNCHANGED <<Config, Model, Optim, Best, Counters, Results, TrainLocals,
                   tb_writer>>
    /\ UNCHANGED History

----------------------------------------------------------------------------
(* training_epoch(few_shot_classifier, train_loader, train_optimizer) *)

\* Variant: model.train() is not called
TrainEnter_NoTrainMode ==
    /\ pc = "train_enter"
    /\ all_loss' = <<>>
    /\ epoch_losses' = <<>>
    /\ mode' = mode
    /\ episode_index' = -1
    /\ pc' = "iter"
    /\ UNCHANGED <<Config, epoch, tensors, grad, support, scores, loss, Optim,
                   Best, Counters, Results, tb_writer>>
    /\ mode_at_entry' = mode
    /\ UNCHANGED val_history

\* all_loss = []; model.train()
TrainEnter ==
    /\ pc = "train_enter"
    /\ all_loss' = <<>>
    /\ epoch_losses' = <<>>
    /\ mode' = "train"
    /\ episode_index' = -1
    /\ pc' = "iter"
    /\ UNCHANGED <<Config, epoch, tensors, grad, support, scores, loss, Optim,
                   Best, Counters, Results, tb_writer>>
    /\ mode_at_entry' = mode
    /\ UNCHANGED val_history

\* for episode_index, (...) in tqdm_train
NextEpisode ==
    /\ pc = "iter"
    /\ IF episode_index + 1 < n_tasks_per_epoch
          THEN /\ episode_index' = episode_index + 1
               /\ pc' = "zero_grad"
          ELSE /\ episode_index' = episode_index
               /\ pc' = "return"
    /\ UNCHANGED <<Config, epoch, Model, Optim, Best, Counters, Results,
                   all_loss, epoch_losses, tb_writer>>
    /\ UNCHANGED History

\* Variant: the gradients are not zeroed
ZeroGrad_Skipped ==
    /\ pc = "zero_grad"
    /\ grad' = grad
    /\ pc' = "support"
    /\ UNCHANGED <<Config, epoch, tensors, mode, support, scores, loss, Optim,
                   Best, Counters, Results, TrainLocals, tb_writer>>
    /\ UNCHANGED History

\* optimizer.zero_grad()
ZeroGrad ==
    /\ pc = "zero_grad"
    /\ grad' = {}
    /\ pc' = "support"
    /\ UNCHANGED <<Config, epoch, tensors, mode, support, scores, loss, Optim,
                   Best, Counters, Results, TrainLocals, tb_writer>>
    /\ UNCHANGED History

\* model.process_support_set(support_images, support_labels)
ProcessSupportSet ==
    /\ pc = "support"
    /\ support' = Episode
    /\ pc' = "forward"
    /\ UNCHANGED <<Config, epoch, tensors, mode, grad, scores, loss, Optim,
                   Best, Counters, Results, TrainLocals, tb_writer>>
    /\ UNCHANGED History

\* classification_scores = model(query_images)
Forward ==
    /\ pc = "forward"
    /\ scores' = [support |-> support, query |-> Episode]
    /\ pc' = "loss"
    /\ UNCHANGED <<Config, epoch, tensors, mode, grad, support, loss, Optim,
                   Best, Counters, Results, TrainLocals, tb_writer>>
    /\ UNCHANGED History

\* loss = LOSS_FUNCTION(classification_scores, query_labels)
ComputeLoss(lossChoices) ==
    /\ pc = "loss"
    /\ \E v \in lossChoices :
          /\ loss' = [support |-> scores.support, query |-> scores.query,
                      labels |-> Episode, value |-> v]
          /\ epoch_losses' = Append(epoch_losses, v)
    /\ pc' = "backward"
    /\ UNCHANGED <<Config, epoch, tensors, mode, grad, support, scores, Optim,
                   Best, Counters, Results, episode_index, all_loss, tb_writer>>
    /\ UNCHANGED History

\* loss.backward(): gradients are accumulated into .grad
Backward ==
    /\ pc = "backward"
    /\ grad' = grad \cup {loss.labels}
    /\ pc' = "step"
    /\ UNCHANGED <<Config, epoch, tensors, mode, support, scores, loss, Optim,
                   Best, Counters, Results, TrainLocals, tb_writer>>
    /\ UNCHANGED History

\* optimizer.step(): the parameters are updated in place
OptimizerStep ==
    /\ pc = "step"
    /\ tensors' = [tensors EXCEPT ![PARAMS] = @ + 1]
    /\ lr_used' = lr
    /\ pc' = "append"
    /\ UNCHANGED <<Config, epoch, mode, grad, support, scores, loss, lr,
                   last_epoch, Best, Counters, Results, TrainLocals, tb_writer>>
    /\ UNCHANGED History

\* Variant: only the last loss is kept
AppendLoss_OnlyLast ==
    /\ pc = "append"
    /\ all_loss' = <<loss.value>>
    /\ pc' = "iter"
    /\ UNCHANGED <<Config, epoch, Model, Optim, Best, Counters, Results,
                   episode_index, epoch_losses, tb_writer>>
    /\ UNCHANGED History

\* all_loss.append(loss.item())
AppendLoss ==
    /\ pc = "append"
    /\ all_loss' = Append(all_loss, loss.value)
    /\ pc' = "iter"
    /\ UNCHANGED <<Config, epoch, Model, Optim, Best, Counters, Results,
                   episode_index, epoch_losses, tb_writer>>
    /\ UNCHANGED History

\* Variant: the mean of an empty list is 0 instead of an error
TrainReturn_NoRaise ==
    /\ pc = "return"
    /\ IF all_loss = <<>>
          THEN /\ average_loss' = <<0, 1>>
               /\ n_train' = n_train + 1
               /\ pc' = "validate"
          ELSE /\ average_loss' = mean(all_loss)
               /\ n_train' = n_train + 1
               /\ pc' = "validate"
    /\ episode_index' = -1
    /\ scores' = NoScores
    /\ loss' = NoLoss
    /\ all_loss' = <<>>
    /\ UNCHANGED <<Config, epoch, tensors, mode, grad, support, Optim, Best,
                   n_val, n_test, n_restore, validation_accuracy, accuracy,
                   test_params, epoch_losses, tb_writer>>
    /\ mode_at_entry' = "none"
    /\ UNCHANGED val_history

\* return mean(all_loss): statistics.mean raises StatisticsError on an empty
\* list; nothing in the notebook catches it.  On return the locals of the call
\* go out of scope.
TrainReturn ==
    /\ pc = "return"
    /\ IF all_loss = <<>>
          THEN /\ pc' = "error"
               /\ UNCHANGED <<average_loss, n_train>>
          ELSE /\ average_loss' = mean(all_loss)
               /\ n_train' = n_train + 1
               /\ pc' = "validate"
    /\ episode_index' = -1
    /\ scores' = NoScores
    /\ loss' = NoLoss
    /\ all_loss' = <<>>
    /\ UNCHANGED <<Config, epoch, tensors, mode, grad, support, Optim, Best,
                   n_val, n_test, n_restore, validation_accuracy, accuracy,
                   test_params, epoch_losses, tb_writer>>
    /\ mode_at_entry' = "none"
    /\ UNCHANGED val_history

----------------------------------------------------------------------------
(* The rest of the loop body *)

\* evaluate(model, loader): a scalar accuracy in [0,1]; the pass leaves the
\* model holding the support set of one of the loader's episodes, and may
\* leave it in evaluation mode
evaluate(accChoices, result) ==
    /\ result \in accChoices
    /\ mode' \in {mode, "eval"}
    /\ support' = OtherEpisode

\* validation_accuracy = evaluate(few_shot_classifier, val_loader, ...)
Validate(accChoices) ==
    /\ pc = "validate"
    /\ evaluate(accChoices, validation_accuracy')
    /\ n_val' = n_val + 1
    /\ epoch_losses' = <<>>
    /\ val_history' = Append(val_history, validation_accuracy')
    /\ pc' = "update_best"
    /\ UNCHANGED <<Config, epoch, tensors, grad, scores, loss, Optim, Best,
                   n_train, n_test, n_restore, average_loss, accuracy,
                   test_params, episode_index, all_loss, tb_writer>>
    /\ UNCHANGED mode_at_entry

\* Variant: best_validation_accuracy is not updated
UpdateBest_KeepsOldAccuracy ==
    /\ pc = "update_best"
    /\ IF validation_accuracy > best_validation_accuracy
          THEN /\ best_validation_accuracy' = best_validation_accuracy
               /\ best_state' = state_dict
               /\ assign_epochs' = assign_epochs \cup {epoch}
          ELSE UNCHANGED <<best_validation_accuracy, best_state, assign_epochs>>
    /\ end_params' = Append(end_params, tensors[PARAMS])
    /\ pc' = "log_loss"
    /\ UNCHANGED <<Config, epoch, Model, Optim, Counters, Results, TrainLocals,
                   tb_writer>>
    /\ UNCHANGED History

\* Variant: the comparison is >= instead of >
UpdateBest_AcceptsTie ==
    /\ pc = "update_best"
    /\ IF validation_accuracy >= best_validation_accuracy
          THEN /\ best_validation_accuracy' = validation_accuracy
               /\ best_state' = state_dict
               /\ assign_epochs' = assign_epochs \cup {epoch}
          ELSE UNCHANGED <<best_validation_accuracy, best_state, assign_epochs>>
    /\ end_params' = Append(end_params, tensors[PARAMS])
    /\ pc' = "log_loss"
    /\ UNCHANGED <<Config, epoch, Model, Optim, Counters, Results, TrainLocals,
                   tb_writer>>
    /\ UNCHANGED History

\* if validation_accuracy > best_validation_accuracy: ...
UpdateBest ==
    /\ pc = "update_best"
    /\ IF validation_accuracy > best_validation_accuracy
          THEN /\ best_validation_accuracy' = validation_accuracy
               /\ best_state' = state_dict
               /\ assign_epochs' = assign_epochs \cup {epoch}
          ELSE UNCHANGED <<best_validation_accuracy, best_state, assign_epochs>>
    /\ end_params' = Append(end_params, tensors[PARAMS])
    /\ pc' = "log_loss"
    /\ UNCHANGED <<Config, epoch, Model, Optim, Counters, Results, TrainLocals,
                   tb_writer>>
    /\ UNCHANGED History

\* tb_writer.add_scalar("Train/loss", average_loss, epoch)
LogLoss ==
    /\ pc = "log_loss"
    /\ tb_writer' = Append(tb_writer, <<"Train/loss", average_loss, epoch>>)
    /\ pc' = "log_acc"
    /\ UNCHANGED <<Config, epoch, Model, Optim, Best, Counters, Results,
                   TrainLocals>>
    /\ UNCHANGED History

\* Variant: the best accuracy is logged instead of the epoch's
LogAcc_LogsBest ==
    /\ pc = "log_acc"
    /\ tb_writer' = Append(tb_writer, <<"Val/acc", best_validation_accuracy, epoch>>)
    /\ pc' = "scheduler"
    /\ UNCHANGED <<Config, epoch, Model, Optim, Best, Counters, Results,
                   TrainLocals>>
    /\ UNCHANGED History

\* tb_writer.add_scalar("Val/acc", validation_accuracy, epoch)
LogAcc ==
    /\ pc = "log_acc"
    /\ tb_writer' = Append(tb_writer, <<"Val/acc", validation_accuracy, epoch>>)
    /\ pc' = "scheduler"
    /\ UNCHANGED <<Config, epoch, Model, Optim, Best, Counters, Results,
                   TrainLocals>>
    /\ UNCHANGED History

\* Variant: the milestone is tested before the counter is incremented
SchedulerStep_LateMilestone ==
    /\ pc = "scheduler"
    /\ last_epoch' = last_epoch + 1
    /\ lr' = IF last_epoch \in scheduler_milestones
                THEN lr \div gamma_divisor
                ELSE lr
    /\ pc' = "epoch_head"
    /\ UNCHANGED <<Config, epoch, Model, lr_used, Best, Counters, Results,
                   TrainLocals, tb_writer>>
    /\ UNCHANGED History

\* train_scheduler.step(): MultiStepLR multiplies the learning rate by gamma
\* when the epoch counter reaches a milestone
SchedulerStep ==
    /\ pc = "scheduler"
    /\ last_epoch' = last_epoch + 1
    /\ lr' = IF last_epoch' \in scheduler_milestones
                THEN lr \div gamma_divisor
                ELSE lr
    /\ pc' = "epoch_head"
    /\ UNCHANGED <<Config, epoch, Model, lr_used, Best, Counters, Results,
                   TrainLocals, tb_writer>>
    /\ UNCHANGED History

----------------------------------------------------------------------------
(* After the loop *)

\* few_shot_classifier.load_state_dict(best_state)
Restore ==
    /\ pc = "restore"
    /\ tensors' = load_state_dict(best_state)
    /\ n_restore' = n_restore + 1
    /\ pc' = "test"
    /\ UNCHANGED <<Config, epoch, mode, grad, support, scores, loss, Optim,
                   Best, n_train, n_val, n_test, Results, TrainLocals,
                   tb_writer>>
    /\ UNCHANGED History

\* accuracy = evaluate(few_shot_classifier, test_loader, device=DEVICE)
Test(accChoices) ==
    /\ pc = "test"
    /\ evaluate(accChoices, accuracy')
    /\ test_params' = tensors[PARAMS]
    /\ n_test' = n_test + 1
    /\ pc' = "done"
    /\ UNCHANGED <<Config, epoch, tensors, grad, scores, loss, Optim, Best,
                   n_train, n_val, n_restore, average_loss,
                   validation_accuracy, TrainLocals, tb_writer>>
    /\ UNCHANGED History

----------------------------------------------------------------------------
(* Specifications *)

Step(lossChoices, accChoices) ==
    \/ InitBest
    \/ LoopHead
    \/ TrainEnter
    \/ NextEpisode
    \/ ZeroGrad
    \/ ProcessSupportSet
    \/ Forward
    \/ ComputeLoss(lossChoices)
    \/ Backward
    \/ OptimizerStep
    \/ AppendLoss
    \/ TrainReturn
    \/ Validate(accChoices)
    \/ UpdateBest
    \/ LogLoss
    \/ LogAcc
    \/ SchedulerStep
    \/ Restore
    \/ Test(accChoices)

\* Short runs under every loss and accuracy the data can produce
Init == InitWith(1..MaxEpochs, 0..MaxEpisodes)
Next == Step(Losses, Accuracies)
Spec == Init /\ [][Next]_vars

\* The configured number of epochs, under one loss and accuracy per call
InitConfigured == InitWith({configured_n_epochs}, 0..MaxEpisodes)
NextConfigured == Step({MaxLoss}, {AccScale})
SpecConfigured == InitConfigured /\ [][NextConfigured]_vars

----------------------------------------------------------------------------
(* Vocabulary of the properties *)

Max(S) == CHOOSE x \in S : \A y \in S : y <= x

SeqValues(q) == {q[i] : i \in 1..Len(q)}

\* Positions inside one episode of training_epoch
EpisodePcs == {"zero_grad", "support", "forward", "loss", "backward", "step",
               "append"}

\* Positions inside a call of training_epoch
TrainPcs == {"train_enter", "iter", "return"} \cup EpisodePcs

\* Positions of the loop body after the snapshot decision of the epoch
AfterUpdatePcs == {"log_loss", "log_acc", "scheduler"}

\* Positions after the training loop
AfterLoopPcs == {"restore", "test", "done"}

\* The epoch (0-based) whose validation accuracy is the best observed: the
\* earliest one that reaches the maximum
BestEpoch ==
    CHOOSE e \in 0..(Len(val_history) - 1) :
        /\ val_history[e + 1] = Max(SeqValues(val_history))
        /\ \A j \in 0..(e - 1) : val_history[j + 1] < val_history[e + 1]

\* The learning rate (units of 1e-4) the schedule prescribes for an epoch
PrescribedLr(e) == IF e < 120 THEN 100 ELSE IF e < 160 THEN 10 ELSE 1

----------------------------------------------------------------------------
(* C1: after load_state_dict(best_state), and during the test evaluation,   *)
(* the model's parameters are those it had at the end of the epoch whose    *)
(* validation accuracy is the best observed, whatever later epochs did.     *)
(* Stated for runs in which some epoch improved on the initial 0.0.         *)
C1_RestoredParamsAreBestEpochs ==
    /\ (pc \in {"test", "done"} /\ best_validation_accuracy > 0)
          => tensors[PARAMS] = end_params[BestEpoch + 1]
    /\ (pc = "done" /\ best_validation_accuracy > 0)
          => test_params = end_params[BestEpoch + 1]

(* C2: exactly n_epochs epochs run; in each epoch training completes before *)
(* validation starts, validation of epoch e completes before training of    *)
(* epoch e+1 starts; the test evaluation happens once, after all epochs and *)
(* after the best state has been restored.                                  *)
C2_EpochOrder ==
    /\ epoch < n_epochs
    /\ pc \in TrainPcs =>
          /\ n_train = epoch /\ n_val = epoch /\ last_epoch = epoch
    /\ pc = "validate" =>
          /\ n_train = epoch + 1 /\ n_val = epoch
    /\ pc \in {"update_best"} \cup AfterUpdatePcs =>
          /\ n_train = epoch + 1 /\ n_val = epoch + 1
    /\ pc \in AfterLoopPcs =>
          /\ epoch = n_epochs - 1
          /\ n_train = n_epochs /\ n_val = n_epochs /\ last_epoch = n_epochs
    /\ pc \notin AfterLoopPcs => n_restore = 0 /\ n_test = 0
    /\ pc = "restore" => n_restore = 0 /\ n_test = 0
    /\ pc = "test" => n_restore = 1 /\ n_test = 0
    /\ pc = "done" => n_restore = 1 /\ n_test = 1

C2_Witness ==
    /\ pc = "done"
    /\ n_epochs = 2
    /\ n_train = 2 /\ n_val = 2 /\ n_restore = 1 /\ n_test = 1

(* C3: every optimizer step of epoch e uses learning rate 1e-2 when         *)
(* e < 120, 1e-3 when 120 <= e < 160, 1e-4 when 160 <= e < 200; the rate is *)
(* constant inside an epoch and never increases.                            *)
C3_LearningRateSchedule ==
    /\ epoch < 200
    /\ pc \in TrainPcs \cup {"validate", "update_best"} \cup AfterUpdatePcs
          => lr = PrescribedLr(epoch)
    /\ pc = "append" => lr_used = PrescribedLr(epoch)
    /\ lr_used # NoValue => lr <= lr_used

C3_Witness ==
    /\ pc = "append"
    /\ epoch = 160
    /\ lr_used = 1

(* C4: at the end of every epoch best_validation_accuracy is the maximum of *)
(* 0.0 and the validation accuracies returned so far; it stays in [0,1] and *)
(* never decreases.                                                         *)
C4_EndOfEpochMax ==
    /\ pc # "init_best" => best_validation_accuracy \in 0..AccScale
    /\ pc \in AfterUpdatePcs \cup {"epoch_head"} \cup AfterLoopPcs
          => best_validation_accuracy = Max({0} \cup SeqValues(val_history))

C4_BestAccuracyIsRunningMax ==
    /\ []C4_EndOfEpochMax
    /\ [][best_validation_accuracy' >= best_validation_accuracy]_vars

C4_Witness ==
    /\ pc = "scheduler"
    /\ val_history = <<1, 2>>
    /\ best_validation_accuracy = 2

(* C5: best_state is reassigned in epoch e exactly when that epoch's        *)
(* validation accuracy is strictly greater than 0.0 and than every earlier  *)
(* one; a tie does not replace the snapshot, so the last assignment is made *)
(* by the earliest epoch reaching the maximum; with no accuracy above 0.0   *)
(* the only assignment is the one before the first epoch.                   *)
C5_SnapshotOnlyOnStrictImprovement ==
    LET decided == IF pc = "update_best"
                      THEN 0..(epoch - 1)
                      ELSE 0..(Len(val_history) - 1)
    IN  /\ assign_epochs \subseteq decided
        /\ \A e \in decided :
              e \in assign_epochs <=>
                 /\ val_history[e + 1] > 0
                 /\ \A j \in 0..(e - 1) : val_history[j + 1] < val_history[e + 1]
        /\ (pc # "update_best" /\ assign_epochs # {})
              => Max(assign_epochs) = BestEpoch
        /\ (pc # "update_best" /\ SeqValues(val_history) \subseteq {0})
              => assign_epochs = {}
        /\ pc # "init_best" => best_state = state_dict

C5_Witness ==
    /\ pc = "done"
    /\ val_history = <<1, 1>>
    /\ assign_epochs = {0}

(* C6: each episode is processed as zero_grad, process_support_set, forward,*)
(* loss, backward, step: one optimizer step per episode, the gradient used  *)
(* by a step comes from that episode alone, and the loss of an episode is   *)
(* computed from its own support set, query images and query labels.        *)
C6_EpisodeIsolation ==
    /\ pc \in {"forward", "loss", "backward", "step", "append"}
          => support = Episode
    /\ pc \in {"loss", "backward", "step", "append"}
          => scores = [support |-> Episode, query |-> Episode]
    /\ pc \in {"backward", "step", "append"}
          => /\ loss.support = Episode
             /\ loss.query = Episode
             /\ loss.labels = Episode
    /\ pc \in {"support", "forward", "loss", "backward"} => grad = {}
    /\ pc \in {"step", "append"} => grad = {Episode}
    /\ pc \in EpisodePcs \ {"append"}
          => tensors[PARAMS] = epoch * n_tasks_per_epoch + episode_index
    /\ pc \in {"append", "iter"}
          => tensors[PARAMS] = epoch * n_tasks_per_epoch + episode_index + 1

C6_Witness ==
    /\ pc = "step"
    /\ Episode = <<1, 1>>
    /\ grad = {<<1, 1>>}
    /\ tensors[PARAMS] = 3

(* C7: for a loader yielding at least one episode, training_epoch returns   *)
(* the arithmetic mean of the losses of the episodes of that epoch, each    *)
(* counted once, and of no other epoch.                                     *)
C7_ReturnsMeanOfEpochLosses ==
    (pc = "validate") =>
        /\ Len(epoch_losses) = n_tasks_per_epoch
        /\ average_loss[2] > 0
        /\ average_loss[1] * Len(epoch_losses)
              = average_loss[2] * Sum(epoch_losses)

C7_Witness ==
    /\ pc = "validate"
    /\ epoch = 1
    /\ epoch_losses = <<0, 1>>
    /\ average_loss = <<1, 2>>
    /\ tb_writer[1] = <<"Train/loss", <<1, 1>>, 0>>

(* C8: every epoch e writes exactly one "Train/loss" and one "Val/acc"      *)
(* scalar, both with step e and the values computed in that epoch, whether  *)
(* or not the epoch gave a new best model.                                  *)
C8_OneScalarOfEachTagPerEpoch ==
    /\ \A i \in 1..Len(tb_writer) :
          /\ tb_writer[i][1] = (IF i % 2 = 1 THEN "Train/loss" ELSE "Val/acc")
          /\ tb_writer[i][3] = (i - 1) \div 2
          /\ i % 2 = 0 => tb_writer[i][2] = val_history[i \div 2]
    /\ pc \in TrainPcs \cup {"validate", "update_best", "log_loss"}
          => Len(tb_writer) = 2 * epoch
    /\ pc = "log_acc" =>
          /\ Len(tb_writer) = 2 * epoch + 1
          /\ tb_writer[Len(tb_writer)] = <<"Train/loss", average_loss, epoch>>
    /\ pc \in {"scheduler", "epoch_head"} \cup AfterLoopPcs =>
          /\ Len(tb_writer) = 2 * (epoch + 1)
          /\ epoch >= 0 =>
                /\ tb_writer[2 * epoch + 1] = <<"Train/loss", average_loss, epoch>>
                /\ tb_writer[2 * epoch + 2] = <<"Val/acc", validation_accuracy, epoch>>

C8_Witness ==
    /\ pc = "scheduler"
    /\ epoch = 1
    /\ assign_epochs = {0}
    /\ Len(tb_writer) = 4
    /\ tb_writer[4] = <<"Val/acc", 1, 1>>
    /\ tb_writer[2] = <<"Val/acc", 2, 0>>

(* C9: every optimizer step is taken in training mode, also in an epoch     *)
(* that follows a validation pass which left the model in evaluation mode.  *)
C9_StepsInTrainingMode ==
    pc \in EpisodePcs => mode = "train"

C9_Witness ==
    /\ pc = "step"
    /\ epoch = 1
    /\ mode_at_entry = "eval"
    /\ mode = "train"

(* C10: with a loader that yields no episode, training_epoch takes no       *)
(* optimizer step and ends in an error; no validation, snapshot update,     *)
(* logging or scheduler step happens for that epoch and no later epoch runs.*)
C10_EmptyLoaderRaises ==
    /\ n_tasks_per_epoch = 0 =>
          pc \in {"init_best", "epoch_head", "train_enter", "iter", "return",
                  "error"}
    /\ pc = "error" =>
          /\ n_tasks_per_epoch = 0
          /\ epoch = 0
          /\ tensors[PARAMS] = 0
          /\ lr_used = NoValue
          /\ n_train = 0 /\ n_val = 0
          /\ val_history = <<>>
          /\ assign_epochs = {} /\ best_validation_accuracy = 0
          /\ tb_writer = <<>>
          /\ last_epoch = 0 /\ lr = learning_rate
          /\ ~ ENABLED Next

C10_Witness ==
    /\ pc = "error"
    /\ n_tasks_per_epoch = 0
    /\ n_epochs = 2

====
